---- MODULE Spec2Model ----
(***************************************************************************)
(* Red String Theory: autonomous garment swap platform.                    *)
(*                                                                         *)
(* The model covers the persistence-backed generation of the system: the   *)
(* weighted compatibility engine (agents/compatibility.js), the garment    *)
(* agent (agents/ClothingAgent.js), the orchestrator and the HTTP API that *)
(* fronts it (agents/orchestrator.js, api/server.js).                      *)
(*                                                                         *)
(* Numbers.  Scores and thresholds are rationals in [0,1]; they are kept   *)
(* as integers in units of 1/One, with One chosen so that every product    *)
(* and quotient the engine forms on the modelled garments is exact.        *)
(* condition, rarity and patience are kept in tenths.  Time is kept in     *)
(* whole days.                                                             *)
(*                                                                         *)
(* Concurrency.  The server is single-threaded JavaScript: code between    *)
(* two awaits runs without interruption, and every storage round trip is   *)
(* one atomic statement at the database.  A tick is therefore a process    *)
(* that takes one step per storage round trip; ticks and the API handlers  *)
(* interleave at these steps.  confirmSwap is modelled twice: as one step  *)
(* (Confirm), a call that nothing else falls into, and round trip by round *)
(* trip (ConfirmLoadIntent to ConfirmWrite).  The browser client           *)
(* (public/app.js) is a process of its own that polls the API.             *)
(*                                                                         *)
(* Specifications.  Spec: ticks that do not overlap, with the confirm and  *)
(* decline endpoints, the clock standing still; SpecApi: the same from     *)
(* garments with the default threshold.  SpecClock: the same ticks with    *)
(* the decline endpoint while days pass.  SpecLive: the timer's ticks      *)
(* under fairness while the days pass.  SpecOverlap: the timer's tick and  *)
(* a triggered tick running at once, the dialogue service answering or     *)
(* not; SpecTrigger: the two ticks alone; SpecCheck: the two ticks while   *)
(* the existence check's query may fail; SpecSkip: the two ticks while     *)
(* garments are deactivated.  SpecDeactivate: ticks while garments are     *)
(* deactivated and the garments query may fail.  SpecDelete: ticks and     *)
(* confirmations while garments are deleted, with the foreign keys'        *)
(* actions.  SpecConfirm: confirmSwap round trip by round trip, any write  *)
(* failing; SpecConfirmDelete: the same while garments are deleted.        *)
(* SpecClient: the browser client polling while ticks run and swaps are    *)
(* confirmed.  SpecRun: the orchestrator from its construction, start()    *)
(* and stop() in any order, exceptions raised under ticks.  SpecFn: the    *)
(* engine's and the dialogue bridge's functions applied to arguments drawn *)
(* from bounded sets.                                                      *)
(***************************************************************************)
EXTENDS Integers, Sequences, FiniteSets, TLC

\* ------------------------------------------------------------------ bounds
MaxIntents == 2
MaxHistory == 2
MaxNow == 16
MaxDays == 100
MaxTimers == 2
MaxTags == 3

\* ---------------------------------------------------------------- universe
Users == {"alice", "bob", "carol"}
Garments == {"g1", "g2", "g3"}
GarmentOrder == <<"g1", "g2", "g3">>
\* the tick awaited by start(), the tick run by the interval timer and the
\* one run by POST /api/orchestrator/trigger
Ticks == {"start", "timer", "trigger"}
NoGarment == "none"

\* 1.0 in score units
One == 6000

Max(x, y) == IF x >= y THEN x ELSE y
Min(x, y) == IF x <= y THEN x ELSE y
Abs(x) == IF x >= 0 THEN x ELSE -x

\* ------------------------------------------------- garment attribute rows
\* The columns of a garments row that no modelled operation writes.
GarmentData ==
  [g \in Garments |->
     CASE g = "g1" -> [category |-> "Outerwear", size |-> "M", condition |-> 8,
                       rarity |-> 7, style_tags |-> <<"vintage", "casual">>,
                       personality |-> {"bold"}, vibe |-> "rebellious",
                       patience |-> 5]
       [] g = "g2" -> [category |-> "Outerwear", size |-> "M", condition |-> 8,
                       rarity |-> 7, style_tags |-> <<"vintage", "casual">>,
                       personality |-> {"bold"}, vibe |-> "elegant",
                       patience |-> 0]
       [] OTHER    -> [category |-> "Outerwear", size |-> "S", condition |-> 7,
                       rarity |-> 9, style_tags |-> <<"vintage">>,
                       personality |-> {"bold"}, vibe |-> "rebellious",
                       patience |-> 9]]

\* ------------------------------------------------ compatibility engine
\* new Set(list)
SetOf(list) == {list[k] : k \in 1..Len(list)}

\* a style score that counts the shared tags on the list of garment A
styleScore_Lists(garmentA, garmentB) ==
  LET tagsB == SetOf(garmentB.style_tags)
      allTags == SetOf(garmentA.style_tags \o garmentB.style_tags)
      intersection == SelectSeq(garmentA.style_tags, LAMBDA tag : tag \in tagsB)
  IN IF Cardinality(allTags) = 0 THEN 0
     ELSE (Len(intersection) * One) \div Cardinality(allTags)

\* style_tags are lists, as the jsonb column holds them
styleScore(garmentA, garmentB) ==
  LET tagsA == SetOf(garmentA.style_tags)
      tagsB == SetOf(garmentB.style_tags)
      allTags == SetOf(garmentA.style_tags \o garmentB.style_tags)
      intersection == {tag \in tagsA : tag \in tagsB}
  IN IF Cardinality(allTags) = 0 THEN 0
     ELSE (Cardinality(intersection) * One) \div Cardinality(allTags)

vibeScore(garmentA, garmentB) ==
  IF garmentA.vibe = "" \/ garmentB.vibe = "" THEN One \div 2
  ELSE IF garmentA.vibe = garmentB.vibe THEN One ELSE One \div 2

personalityScore(garmentA, garmentB) ==
  LET allPersonality == garmentA.personality \cup garmentB.personality
      intersection == garmentA.personality \cap garmentB.personality
  IN IF Cardinality(allPersonality) = 0 THEN One \div 2
     ELSE (Cardinality(intersection) * One) \div Cardinality(allPersonality)

categorySizeScore(garmentA, garmentB) ==
  LET categoryMatch == IF garmentA.category = garmentB.category THEN One ELSE 0
      sizeMatch == IF garmentA.size = garmentB.size THEN One ELSE One \div 2
  IN (categoryMatch * 7 + sizeMatch * 3) \div 10

\* a condition score from the signed difference
conditionScore_Signed(garmentA, garmentB) ==
  One - (garmentA.condition - garmentB.condition) * (One \div 10)

conditionScore(garmentA, garmentB) ==
  One - Abs(garmentA.condition - garmentB.condition) * (One \div 10)

rarityScore(garmentA, garmentB) ==
  One - Abs(garmentA.rarity - garmentB.rarity) * (One \div 10)

fairnessScore(garmentA, garmentB) ==
  LET conditionFairness ==
        One - Abs(garmentA.condition - garmentB.condition) * (One \div 10)
      rarityFairness ==
        One - Abs(garmentA.rarity - garmentB.rarity) * (One \div 10)
  IN (conditionFairness * 6 + rarityFairness * 4) \div 10

\* weights in hundredths
defaultWeights ==
  [style |-> 30, vibe |-> 15, personality |-> 15, fit |-> 15,
   condition |-> 15, rarity |-> 10]

calculateCompatibility(garmentA, garmentB, w) ==
  LET scores == [style |-> styleScore(garmentA, garmentB),
                 vibe |-> vibeScore(garmentA, garmentB),
                 personality |-> personalityScore(garmentA, garmentB),
                 fit |-> categorySizeScore(garmentA, garmentB),
                 condition |-> conditionScore(garmentA, garmentB),
                 rarity |-> rarityScore(garmentA, garmentB)]
      total == (w.style * scores.style
                + w.vibe * scores.vibe
                + w.personality * scores.personality
                + w.fit * scores.fit
                + w.condition * scores.condition
                + w.rarity * scores.rarity) \div 100
  IN [total |-> Min(One, Max(0, total)),
      breakdown |-> scores,
      fairness |-> fairnessScore(garmentA, garmentB)]

\* a decision on fairness alone
shouldProposeSwap_NoThreshold(garment, otherGarment, compatibility) ==
  IF ~garment.active \/ ~otherGarment.active THEN FALSE
  ELSE IF garment.owner_id = otherGarment.owner_id THEN FALSE
  ELSE compatibility.fairness >= One \div 2

\* the decision taken against the other party's threshold
shouldProposeSwap_OtherThreshold(garment, otherGarment, compatibility) ==
  IF ~garment.active \/ ~otherGarment.active THEN FALSE
  ELSE IF garment.owner_id = otherGarment.owner_id THEN FALSE
  ELSE /\ compatibility.total >= otherGarment.min_acceptable_score
       /\ compatibility.fairness >= One \div 2

shouldProposeSwap(garment, otherGarment, compatibility) ==
  IF ~garment.active \/ ~otherGarment.active THEN FALSE
  ELSE IF garment.owner_id = otherGarment.owner_id THEN FALSE
  ELSE LET meetsThreshold == compatibility.total >= garment.min_acceptable_score
           fairEnough == compatibility.fairness >= One \div 2
       IN meetsThreshold /\ fairEnough

\* degradation without the floor
degradeStandards_NoFloor(garment, daysUnmatched) ==
  garment.min_acceptable_score
    - ((10 - garment.patience) * daysUnmatched * One) \div 1000

degradeStandards(garment, daysUnmatched) ==
  LET reduction == ((10 - garment.patience) * daysUnmatched * One) \div 1000
  IN Max((4 * One) \div 10, garment.min_acceptable_score - reduction)

\* ------------------------------------------------------------------- state
VARIABLES
  garments,          \* table garments: the mutable columns of each row
  intents,           \* table swap_intents, in insertion order; id = index
  history,           \* table swap_history, in insertion order
  now,               \* wall clock, in days
  pc,                \* per tick: the storage round trip it is about to make
  agents,            \* per tick: the GarmentAgent objects built from its load
  todo,              \* per tick: agents whose tick() has not yet finished
  bestMatch,         \* per tick: bestMatch of the agent tick in progress
  pendingIntents,    \* per tick: ids loaded by processPendingIntents, unhandled
  acceptedIntents,   \* per tick: ids loaded by processAcceptedIntents, undone
  confirmResult,     \* what confirmSwap returned, when the latest step was a
                     \* call of it
  applied,           \* the latest application of an engine function to
                     \* arguments given directly: its arguments and result
  log,               \* the line the latest step wrote to the log, of the
                     \* lines modelled
  isRunning,         \* AgentOrchestrator.isRunning
  intervalId,        \* AgentOrchestrator.intervalId, 0 for null
  timers,            \* the interval timers armed and not cleared
  startPc,           \* where the call of start() in progress stands
  deletedGarments,   \* ids of the garments rows that have been deleted
  removedIntents,    \* ids of the swap_intents rows that have been deleted
  proposed,          \* per tick: ids of the intents its agents' tick() calls
                     \* have returned
  confirming,        \* the call of confirmSwap in progress: the round trip
                     \* it is about to make and what it has loaded
  client             \* the browser client: its garments, swapIntents and
                     \* swapHistory, the loads in flight, the last rendering

vars == <<garments, intents, history, now, pc, agents, todo, bestMatch,
          pendingIntents, acceptedIntents, confirmResult, applied, log,
          isRunning, intervalId, timers, startPc, deletedGarments,
          removedIntents, proposed, confirming, client>>

runVars == <<isRunning, intervalId, timers, startPc>>

tickVars == <<pc, agents, todo, bestMatch, pendingIntents, acceptedIntents,
              proposed>>

Pct(n) == (n * One) \div 100

\* garments.min_acceptable_score values the rows are created with
InitialScores ==
  {m \in [Garments -> {0, Pct(65), Pct(80)}] :
     /\ m["g1"] \in {Pct(65), Pct(80)}
     /\ m["g2"] = Pct(65)
     /\ m["g3"] \in {0, Pct(65)}}

NoAgent == [loaded |-> FALSE, owner_id |-> "alice",
            min_acceptable_score |-> 0, last_match_attempt |-> 0]
\* confirmResult when the latest step was no return of confirmSwap; of a
\* result, status is the status of result.intent and error is result.error
NoResult == [intent |-> 0, success |-> FALSE, status |-> "none", error |-> ""]
NoLog == ""
\* responded_at of a row that has none
NoTime == -1
\* dialogue_text of a row that has none
NoDialogue == [text |-> "null", compatibility |-> 0, fairness |-> 0]
\* no call of confirmSwap in progress
NoConfirm == [pc |-> "none", id |-> 0, status |-> "none", found |-> FALSE]
\* a response body the client has stored: a JSON array with its rows, or
\* the object {error} of a response with status 500
EmptyList == [array |-> TRUE, rows |-> {}]
ErrorBody == [array |-> FALSE, rows |-> {}]
\* the client's variables as the page declares them, lines 4-7; pending
\* are the loads of the loadData() in progress that have not returned,
\* rendering is how the latest rendering ended
NoClient == [currentPage |-> "matches", garments |-> EmptyList,
             swapIntents |-> EmptyList, swapHistory |-> EmptyList,
             pending |-> {}, rendering |-> "none"]
NoCall == [fn |-> "none", patience |-> 0, min_acceptable_score |-> 0,
           daysUnmatched |-> 0, done |-> FALSE, result |-> 0]

\* the ids of the swap_intents rows that exist
IntentIds == (1..Len(intents)) \ removedIntents
Open(i) == intents[i].status \in {"PENDING", "ACCEPTED"}

\* a full garments row: stored mutable columns joined with the fixed ones
Row(g, r) ==
  [id |-> g, owner_id |-> r.owner_id, active |-> r.active,
   min_acceptable_score |-> r.min_acceptable_score,
   last_match_attempt |-> r.last_match_attempt,
   patience |-> GarmentData[g].patience,
   category |-> GarmentData[g].category, size |-> GarmentData[g].size,
   condition |-> GarmentData[g].condition, rarity |-> GarmentData[g].rarity,
   style_tags |-> GarmentData[g].style_tags,
   personality |-> GarmentData[g].personality, vibe |-> GarmentData[g].vibe]

\* an agent that starts every tick from the default threshold
GarmentAgent_DefaultThreshold(garment) ==
  [garment EXCEPT
     !.patience = IF garment.patience = 0 THEN 5 ELSE garment.patience,
     !.min_acceptable_score = Pct(65),
     !.active = (garment.active # FALSE)]

\* new GarmentAgent(garment, supabase, weights)
GarmentAgent(garment) ==
  [garment EXCEPT
     !.patience = IF garment.patience = 0 THEN 5 ELSE garment.patience,
     !.min_acceptable_score =
        IF garment.min_acceptable_score = 0 THEN Pct(65)
        ELSE garment.min_acceptable_score,
     !.active = (garment.active # FALSE)]

\* the tables after seeding with thresholds m, no tick running
Fresh(m) ==
  /\ garments =
       [g \in Garments |->
          [owner_id |-> CASE g = "g1" -> "alice" [] g = "g2" -> "bob"
                          [] OTHER -> "carol",
           active |-> TRUE,
           min_acceptable_score |-> m[g],
           last_match_attempt |-> 0]]
  /\ intents = <<>>
  /\ history = <<>>
  /\ now = 0
  /\ pc = [t \in Ticks |-> "idle"]
  /\ agents = [t \in Ticks |-> [g \in Garments |-> NoAgent]]
  /\ todo = [t \in Ticks |-> <<>>]
  /\ bestMatch = [t \in Ticks |-> NoGarment]
  /\ pendingIntents = [t \in Ticks |-> <<>>]
  /\ acceptedIntents = [t \in Ticks |-> <<>>]
  /\ confirmResult = NoResult
  /\ log = NoLog
  /\ deletedGarments = {}
  /\ removedIntents = {}
  /\ proposed = [t \in Ticks |-> {}]
  /\ confirming = NoConfirm
  /\ client = NoClient

\* new AgentOrchestrator(...), lines 8-15
Constructed ==
  /\ isRunning = FALSE
  /\ intervalId = 0
  /\ timers = {}
  /\ startPc = "none"

\* the orchestrator once orchestrator.start() of the server has completed
Started ==
  /\ isRunning = TRUE
  /\ intervalId = 1
  /\ timers = {1}
  /\ startPc = "none"

Init ==
  /\ \E m \in InitialScores : Fresh(m)
  /\ Started
  /\ applied = NoCall

\* ------------------------------------------------------ GarmentAgent.tick
\* the agent object of garment g in tick t, and the loaded row of g
AgentOf(t, g) ==
  [Row(g, [owner_id |-> agents[t][g].owner_id, active |-> TRUE,
           min_acceptable_score |-> agents[t][g].min_acceptable_score,
           last_match_attempt |-> agents[t][g].last_match_attempt])
     EXCEPT !.patience = IF @ = 0 THEN 5 ELSE @]

Loaded(t) == {g \in Garments : agents[t][g].loaded}
LoadedSeq(t) == SelectSeq(GarmentOrder, LAMBDA g : g \in Loaded(t))

getDaysSinceLastAttempt(agent) == now - agent.last_match_attempt

\* a candidate loop that keeps the latest candidate the agent would propose
\* to, whatever its total
RECURSIVE bestOf_LastEligible(_, _, _, _, _)
bestOf_LastEligible(t, agent, candidates, best, bestScore) ==
  IF candidates = <<>> THEN best
  ELSE LET other == AgentOf(t, Head(candidates))
           compatibility == calculateCompatibility(agent, other, defaultWeights)
       IN IF shouldProposeSwap(agent, other, compatibility)
          THEN bestOf_LastEligible(t, agent, Tail(candidates), other.id,
                                   compatibility.total)
          ELSE bestOf_LastEligible(t, agent, Tail(candidates), best, bestScore)

\* the candidate loop of tick(): highest total among the candidates the
\* agent would propose to, the first one met winning a tie
RECURSIVE bestOf(_, _, _, _, _)
bestOf(t, agent, candidates, best, bestScore) ==
  IF candidates = <<>> THEN best
  ELSE LET other == AgentOf(t, Head(candidates))
           compatibility == calculateCompatibility(agent, other, defaultWeights)
       IN IF shouldProposeSwap(agent, other, compatibility)
             /\ compatibility.total > bestScore
          THEN bestOf(t, agent, Tail(candidates), other.id, compatibility.total)
          ELSE bestOf(t, agent, Tail(candidates), best, bestScore)

Candidates(t, agent) ==
  SelectSeq(LoadedSeq(t),
            LAMBDA g : g # agent.id /\ agents[t][g].owner_id # agent.owner_id)

\* checkExistingIntent: maybeSingle() yields a row only when exactly one
\* open intent joins the two garments, in either orientation
OpenBetween(x, y) ==
  {i \in IntentIds :
     /\ Open(i)
     /\ \/ intents[i].garment_a_id = x /\ intents[i].garment_b_id = y
        \/ intents[i].garment_a_id = y /\ intents[i].garment_b_id = x}

\* an existence check that looks at intents of every status
checkExistingIntent_AnyStatus(x, y) ==
  Cardinality({i \in IntentIds :
                 \/ intents[i].garment_a_id = x /\ intents[i].garment_b_id = y
                 \/ intents[i].garment_a_id = y /\ intents[i].garment_b_id = x})
    = 1

\* an existence check that answers yes whenever an open intent exists
checkExistingIntent_FailClosed(x, y) == OpenBetween(x, y) # {}

checkExistingIntent(x, y) == Cardinality(OpenBetween(x, y)) = 1

\* leave the agent loop entry of the current agent
NextAgent(t) ==
  /\ todo' = [todo EXCEPT ![t] = Tail(@)]
  /\ pc' = [pc EXCEPT ![t] = IF Len(todo[t]) = 1 THEN "pendingLoad"
                                ELSE "agentTick"]
  /\ bestMatch' = [bestMatch EXCEPT ![t] = NoGarment]

\* tick(), lines 26-54: degrade when more than 7 days have passed, then
\* search the candidates
AgentTick(t) ==
  /\ pc[t] = "agentTick"
  /\ LET g == Head(todo[t])
         agent == AgentOf(t, g)
         days == getDaysSinceLastAttempt(agent)
         newScore == degradeStandards(agent, days)
         lower == days > 7 /\ newScore < agent.min_acceptable_score
         after == IF lower THEN [agent EXCEPT !.min_acceptable_score = newScore]
                  ELSE agent
         best == bestOf(t, after, Candidates(t, after), NoGarment, 0)
     IN /\ garments' = IF lower /\ g \notin deletedGarments
                       THEN [garments EXCEPT ![g].min_acceptable_score = newScore]
                       ELSE garments
        /\ agents' = [agents EXCEPT ![t][g].min_acceptable_score =
                                       after.min_acceptable_score]
        /\ bestMatch' = [bestMatch EXCEPT ![t] = best]
        /\ pc' = [pc EXCEPT ![t] = IF best = NoGarment THEN "touch" ELSE "check"]
  /\ confirmResult' = NoResult
  /\ log' = NoLog
  /\ UNCHANGED <<applied, runVars, deletedGarments, removedIntents,
                 confirming, client>>
  /\ UNCHANGED <<intents, history, now, todo, pendingIntents, acceptedIntents,
                 proposed>>

\* tick(), lines 56-59: the existence check
AgentCheck(t) ==
  /\ pc[t] = "check"
  /\ pc' = [pc EXCEPT ![t] =
              IF checkExistingIntent(Head(todo[t]), bestMatch[t])
              THEN "touch" ELSE "create"]
  /\ confirmResult' = NoResult
  /\ log' = NoLog
  /\ UNCHANGED <<applied, runVars, deletedGarments, removedIntents,
                 confirming, client>>
  /\ UNCHANGED <<garments, intents, history, now, agents, todo, bestMatch,
                 pendingIntents, acceptedIntents, proposed>>

\* the same when the query of checkExistingIntent fails: the error is
\* logged and data is null
CheckFails(t) ==
  /\ pc[t] = "check"
  /\ pc' = [pc EXCEPT ![t] = "create"]
  /\ confirmResult' = NoResult
  /\ log' = "Error checking existing intent"
  /\ UNCHANGED <<applied, runVars, deletedGarments, removedIntents,
                 confirming, client>>
  /\ UNCHANGED <<garments, intents, history, now, agents, todo, bestMatch,
                 pendingIntents, acceptedIntents, proposed>>

createSwapIntent(agent, otherGarment, compatibility) ==
  [garment_a_id |-> agent.id, garment_b_id |-> otherGarment.id,
   owner_a_id |-> agent.owner_id, owner_b_id |-> otherGarment.owner_id,
   status |-> "PENDING", compatibility_score |-> compatibility.total,
   fairness_score |-> compatibility.fairness, responded_at |-> NoTime,
   dialogue_text |-> NoDialogue]

\* tick(), lines 60-62; the insert is rejected when a garment it
\* references has been deleted
AgentCreate(t) ==
  /\ pc[t] = "create"
  /\ Len(intents) < MaxIntents
  /\ LET agent == AgentOf(t, Head(todo[t]))
         other == AgentOf(t, bestMatch[t])
     IN IF {agent.id, other.id} \cap deletedGarments # {}
        THEN UNCHANGED <<intents, proposed>>
        ELSE /\ intents' = Append(intents,
                  createSwapIntent(agent, other,
                     calculateCompatibility(agent, other, defaultWeights)))
             /\ proposed' = [proposed EXCEPT ![t] = @ \cup {Len(intents) + 1}]
  /\ NextAgent(t)
  /\ confirmResult' = NoResult
  /\ log' = NoLog
  /\ UNCHANGED <<applied, runVars, deletedGarments, removedIntents,
                 confirming, client>>
  /\ UNCHANGED <<garments, history, now, agents, pendingIntents,
                 acceptedIntents>>

\* tick(), line 66
updateLastMatchAttempt(t) ==
  /\ pc[t] = "touch"
  /\ garments' = IF Head(todo[t]) \in deletedGarments THEN garments
                 ELSE [garments EXCEPT
                         ![Head(todo[t])].last_match_attempt = now]
  /\ NextAgent(t)
  /\ confirmResult' = NoResult
  /\ log' = NoLog
  /\ UNCHANGED <<applied, runVars, deletedGarments, removedIntents,
                 confirming, client>>
  /\ UNCHANGED <<intents, history, now, agents, pendingIntents,
                 acceptedIntents, proposed>>

\* ------------------------------------------------------ AgentOrchestrator
loadActiveGarments ==
  {g \in Garments \ deletedGarments : garments[g].active}

\* a tick that has returned keeps nothing
TickDone(t) ==
  /\ pc' = [pc EXCEPT ![t] = "idle"]
  /\ agents' = [agents EXCEPT ![t] = [g \in Garments |-> NoAgent]]
  /\ proposed' = [proposed EXCEPT ![t] = {}]

\* a tick that goes on with a single garment
tick_NoMinimum(t, loaded) ==
  /\ pc[t] = "idle"
  /\ IF Cardinality(loaded) < 1
     THEN /\ UNCHANGED tickVars
          /\ log' = "Not enough active garments for matching"
     ELSE /\ agents' = [agents EXCEPT ![t] =
                 [g \in Garments |->
                    IF g \in loaded
                    THEN LET a == GarmentAgent(Row(g, garments[g]))
                         IN [loaded |-> TRUE, owner_id |-> a.owner_id,
                             min_acceptable_score |-> a.min_acceptable_score,
                             last_match_attempt |-> a.last_match_attempt]
                    ELSE NoAgent]]
          /\ todo' = [todo EXCEPT ![t] =
                 SelectSeq(GarmentOrder, LAMBDA g : g \in loaded)]
          /\ pc' = [pc EXCEPT ![t] = "agentTick"]
          /\ UNCHANGED <<bestMatch, pendingIntents, acceptedIntents, proposed>>
          /\ log' = NoLog
  /\ confirmResult' = NoResult
  /\ UNCHANGED <<applied, deletedGarments, removedIntents, confirming, client>>
  /\ UNCHANGED <<garments, intents, history, now>>

\* tick(), lines 49-66, up to the first agent: loaded is what
\* loadActiveGarments returned
tick(t, loaded) ==
  /\ pc[t] = "idle"
  /\ IF Cardinality(loaded) < 2
     THEN /\ UNCHANGED tickVars
          /\ log' = "Not enough active garments for matching"
     ELSE /\ agents' = [agents EXCEPT ![t] =
                 [g \in Garments |->
                    IF g \in loaded
                    THEN LET a == GarmentAgent(Row(g, garments[g]))
                         IN [loaded |-> TRUE, owner_id |-> a.owner_id,
                             min_acceptable_score |-> a.min_acceptable_score,
                             last_match_attempt |-> a.last_match_attempt]
                    ELSE NoAgent]]
          /\ todo' = [todo EXCEPT ![t] =
                 SelectSeq(GarmentOrder, LAMBDA g : g \in loaded)]
          /\ pc' = [pc EXCEPT ![t] = "agentTick"]
          /\ UNCHANGED <<bestMatch, pendingIntents, acceptedIntents, proposed>>
          /\ log' = NoLog
  /\ confirmResult' = NoResult
  /\ UNCHANGED <<applied, deletedGarments, removedIntents, confirming, client>>
  /\ UNCHANGED <<garments, intents, history, now>>

\* a tick that starts only when no other tick is in progress
TickStart_SingleFlight(t) ==
  /\ \A u \in Ticks \ {t} : pc[u] = "idle"
  /\ tick(t, loadActiveGarments)
  /\ UNCHANGED runVars

\* a tick started by the interval timer or by POST /api/orchestrator/trigger,
\* whether or not another tick is running
TickStart(t) ==
  /\ tick(t, loadActiveGarments)
  /\ UNCHANGED runVars

\* the same when the query of loadActiveGarments fails: it returns []
LoadFails(t) ==
  /\ tick(t, {})
  /\ UNCHANGED runVars

\* the ids of swap_intents, in row order
AllIds ==
  SelectSeq([i \in 1..Len(intents) |-> i], LAMBDA i : i \in IntentIds)

\* processPendingIntents, lines 93-108
PendingLoad(t) ==
  /\ pc[t] = "pendingLoad"
  /\ LET loaded == SelectSeq(AllIds, LAMBDA i : intents[i].status = "PENDING")
     IN /\ pendingIntents' = [pendingIntents EXCEPT ![t] = loaded]
        /\ pc' = [pc EXCEPT ![t] = IF loaded = <<>> THEN "acceptedLoad"
                                    ELSE "handle"]
  /\ confirmResult' = NoResult
  /\ log' = NoLog
  /\ UNCHANGED <<applied, runVars, deletedGarments, removedIntents,
                 confirming, client>>
  /\ UNCHANGED <<garments, intents, history, now, agents, todo, bestMatch,
                 acceptedIntents, proposed>>

\* GarmentAgent.handleProposal: the status the recipient writes.  The
\* intent it is handed was loaded with status PENDING.
handleProposal(t, swapIntent) ==
  LET this == AgentOf(t, swapIntent.garment_b_id)
      proposingGarment == AgentOf(t, swapIntent.garment_a_id)
      compatibility == calculateCompatibility(proposingGarment, this,
                                               defaultWeights)
  IN IF shouldProposeSwap(this, proposingGarment, compatibility)
     THEN "ACCEPTED" ELSE "DECLINED"

\* a loop that hands every loaded intent to handleProposal, whether or not
\* its garments are in the tick's snapshot
HandleProposal_AnyGarment(t) ==
  /\ pc[t] = "handle"
  /\ LET i == Head(pendingIntents[t])
         intent == intents[i]
     IN intents' =
          IF i \in IntentIds
          THEN [intents EXCEPT ![i].status = handleProposal(t, intent),
                               ![i].responded_at = now]
          ELSE intents
  /\ pendingIntents' = [pendingIntents EXCEPT ![t] = Tail(@)]
  /\ pc' = [pc EXCEPT ![t] = IF Len(pendingIntents[t]) = 1 THEN "acceptedLoad"
                              ELSE "handle"]
  /\ confirmResult' = NoResult
  /\ log' = NoLog
  /\ UNCHANGED <<applied, runVars, deletedGarments, removedIntents,
                 confirming, client>>
  /\ UNCHANGED <<garments, history, now, agents, todo, bestMatch,
                 acceptedIntents, proposed>>

\* processPendingIntents, lines 110-117: one intent of the loaded list
HandleProposal(t) ==
  /\ pc[t] = "handle"
  /\ LET i == Head(pendingIntents[t])
         intent == intents[i]
     IN intents' =
          IF /\ intent.garment_b_id \in Loaded(t)
             /\ intent.garment_a_id \in Loaded(t)
             /\ i \in IntentIds
          THEN [intents EXCEPT ![i].status = handleProposal(t, intent),
                               ![i].responded_at = now]
          ELSE intents
  /\ pendingIntents' = [pendingIntents EXCEPT ![t] = Tail(@)]
  /\ pc' = [pc EXCEPT ![t] = IF Len(pendingIntents[t]) = 1 THEN "acceptedLoad"
                              ELSE "handle"]
  /\ confirmResult' = NoResult
  /\ log' = NoLog
  /\ UNCHANGED <<applied, runVars, deletedGarments, removedIntents,
                 confirming, client>>
  /\ UNCHANGED <<garments, history, now, agents, todo, bestMatch,
                 acceptedIntents, proposed>>

\* processAcceptedIntents, lines 120-136
AcceptedLoad(t) ==
  /\ pc[t] = "acceptedLoad"
  /\ LET loaded == SelectSeq(AllIds,
                   LAMBDA i : /\ intents[i].status = "ACCEPTED"
                              /\ intents[i].dialogue_text = NoDialogue)
     IN /\ acceptedIntents' = [acceptedIntents EXCEPT ![t] = loaded]
        /\ IF loaded = <<>>
           THEN TickDone(t)
           ELSE /\ pc' = [pc EXCEPT ![t] = "dialogue"]
                /\ UNCHANGED <<agents, proposed>>
  /\ confirmResult' = NoResult
  /\ log' = NoLog
  /\ UNCHANGED <<applied, runVars, deletedGarments, removedIntents,
                 confirming, client>>
  /\ UNCHANGED <<garments, intents, history, now, todo, bestMatch,
                 pendingIntents>>

\* Math.round(x * 100) of a score x
Round100(x) == (x * 100 + One \div 2) \div One

\* what the dialogue service, or the chat function, answers: both narration
\* texts; nothing, the call failing or timing out; a body without the
\* garmentA and garmentB objects; the two objects without their texts
Responses == {"texts", "error", "noBody", "noTexts"}

\* generateDialogue: text stands for the pair of narration texts
generateDialogue(compatibility, response) ==
  [text |-> CASE response = "texts" -> "generated"
              [] response = "noTexts" -> "undefined"
              [] OTHER -> "templated",
   compatibility |-> Round100(compatibility.total),
   fairness |-> Round100(compatibility.fairness)]

\* generateDialogueForIntent, lines 143-167: one intent of the loaded list
generateDialogueForIntent(t, response) ==
  /\ pc[t] = "dialogue"
  /\ LET i == Head(acceptedIntents[t])
         intent == intents[i]
         compatibility == [total |-> intent.compatibility_score,
                           fairness |-> intent.fairness_score]
     IN intents' =
          IF \/ {intent.garment_a_id, intent.garment_b_id}
                  \cap deletedGarments # {}
             \/ i \notin IntentIds
          THEN intents
          ELSE [intents EXCEPT ![i].dialogue_text =
                                  generateDialogue(compatibility, response)]
  /\ acceptedIntents' = [acceptedIntents EXCEPT ![t] = Tail(@)]
  /\ IF Len(acceptedIntents[t]) = 1
     THEN TickDone(t)
     ELSE UNCHANGED <<pc, agents, proposed>>
  /\ confirmResult' = NoResult
  /\ log' = NoLog
  /\ UNCHANGED <<applied, runVars, deletedGarments, removedIntents,
                 confirming, client>>
  /\ UNCHANGED <<garments, history, now, todo, bestMatch, pendingIntents>>

\* the dialogue service answers with both texts
GenerateDialogue(t) == generateDialogueForIntent(t, "texts")

\* the dialogue service fails, or answers without the texts
DialogueUnavailable(t) ==
  \E response \in Responses \ {"texts"} : generateDialogueForIntent(t, response)

\* a confirmation that hands garment A over and leaves garment B where it is
confirmSwap_OneWay(intentId) ==
  IF intentId \notin IntentIds
  THEN /\ confirmResult' = [intent |-> intentId, success |-> FALSE,
                            status |-> "none", error |-> "Intent not found"]
       /\ UNCHANGED <<garments, intents, history>>
  ELSE LET intent == intents[intentId]
       IN /\ intents' = [intents EXCEPT ![intentId].status = "CONFIRMED"]
          /\ history' = Append(history,
               [swap_intent_id |-> intentId,
                garment_a_id |-> intent.garment_a_id,
                garment_b_id |-> intent.garment_b_id,
                owner_a_id |-> intent.owner_a_id,
                owner_b_id |-> intent.owner_b_id,
                compatibility_score |-> intent.compatibility_score,
                fairness_score |-> intent.fairness_score])
          /\ garments' = [garments EXCEPT
               ![intent.garment_a_id].owner_id = intent.owner_b_id]
          /\ confirmResult' = [intent |-> intentId, success |-> TRUE,
                               status |-> intent.status, error |-> ""]

\* confirmSwap(intentId), lines 206-269, as one step: a call that storage
\* serves and that no other handler's round trip falls into
confirmSwap(intentId) ==
  IF intentId \notin IntentIds
  THEN /\ confirmResult' = [intent |-> intentId, success |-> FALSE,
                            status |-> "none", error |-> "Intent not found"]
       /\ UNCHANGED <<garments, intents, history>>
  ELSE LET intent == intents[intentId]
       IN /\ intents' = [intents EXCEPT ![intentId].status = "CONFIRMED"]
          /\ history' = Append(history,
               [swap_intent_id |-> intentId,
                garment_a_id |-> intent.garment_a_id,
                garment_b_id |-> intent.garment_b_id,
                owner_a_id |-> intent.owner_a_id,
                owner_b_id |-> intent.owner_b_id,
                compatibility_score |-> intent.compatibility_score,
                fairness_score |-> intent.fairness_score])
          /\ garments' = [garments EXCEPT
               ![intent.garment_a_id].owner_id = intent.owner_b_id,
               ![intent.garment_b_id].owner_id = intent.owner_a_id]
          /\ confirmResult' = [intent |-> intentId, success |-> TRUE,
                               status |-> intent.status, error |-> ""]

\* POST /api/swap-intents/:id/confirm
Confirm(intentId) ==
  /\ Len(history) < MaxHistory
  /\ confirmSwap(intentId)
  /\ log' = NoLog
  /\ UNCHANGED <<now, tickVars, applied, runVars, deletedGarments,
                 removedIntents, confirming, client>>

\* the answer of POST /api/swap-intents/:id/confirm to a result of
\* confirmSwap: 400 for a failure, else the result's intent
confirmResponse(result) ==
  [code |-> IF result.success THEN 200 ELSE 400,
   status |-> IF result.success THEN result.status ELSE "none"]

\* confirmSwap round trip by round trip.  Lines 208-217: the intent is loaded.
ConfirmLoadIntent(intentId) ==
  /\ confirming.pc = "none"
  /\ IF intentId \notin IntentIds
     THEN /\ confirmResult' = [intent |-> intentId, success |-> FALSE,
                               status |-> "none", error |-> "Intent not found"]
          /\ UNCHANGED confirming
     ELSE /\ confirming' = [pc |-> "garmentA", id |-> intentId,
                            status |-> intents[intentId].status,
                            found |-> FALSE]
          /\ confirmResult' = NoResult
  /\ log' = NoLog
  /\ UNCHANGED <<garments, intents, history, now, tickVars, applied, runVars,
                 deletedGarments, removedIntents, client>>

\* line 219: garment A is loaded
ConfirmLoadGarmentA ==
  /\ confirming.pc = "garmentA"
  /\ confirming' = [confirming EXCEPT
       !.pc = "garmentB",
       !.found = intents[confirming.id].garment_a_id \notin deletedGarments]
  /\ confirmResult' = NoResult
  /\ log' = NoLog
  /\ UNCHANGED <<garments, intents, history, now, tickVars, applied, runVars,
                 deletedGarments, removedIntents, client>>

\* a confirmation that goes on to its writes without garment B
ConfirmLoadGarmentB_Proceeds ==
  /\ confirming.pc = "garmentB"
  /\ IF ~confirming.found
     THEN /\ confirmResult' = [intent |-> confirming.id, success |-> FALSE,
                               status |-> "none",
                               error |-> "Garments not found"]
          /\ confirming' = NoConfirm
     ELSE /\ confirming' = [confirming EXCEPT !.pc = "intent"]
          /\ confirmResult' = NoResult
  /\ log' = NoLog
  /\ UNCHANGED <<garments, intents, history, now, tickVars, applied, runVars,
                 deletedGarments, removedIntents, client>>

\* lines 220-224: garment B is loaded; both garments must have been found
ConfirmLoadGarmentB ==
  /\ confirming.pc = "garmentB"
  /\ IF \/ ~confirming.found
        \/ intents[confirming.id].garment_b_id \in deletedGarments
     THEN /\ confirmResult' = [intent |-> confirming.id, success |-> FALSE,
                               status |-> "none",
                               error |-> "Garments not found"]
          /\ confirming' = NoConfirm
     ELSE /\ confirming' = [confirming EXCEPT !.pc = "intent"]
          /\ confirmResult' = NoResult
  /\ log' = NoLog
  /\ UNCHANGED <<garments, intents, history, now, tickVars, applied, runVars,
                 deletedGarments, removedIntents, client>>

\* what becomes of a write: storage applies it; storage rejects it and the
\* client returns the error; the client raises
Outcomes == {"ok", "rejected", "throws"}

\* the four writes, lines 226-258, in the order of the code
WriteAfter(w) ==
  CASE w = "intent" -> "history" [] w = "history" -> "ownerA"
    [] w = "ownerA" -> "ownerB" [] OTHER -> "none"

\* the write w of the call in progress, applied to the tables
ConfirmApply(w) ==
  LET intentId == confirming.id
      intent == intents[intentId]
  IN CASE w = "intent" ->
            /\ intents' = IF intentId \in IntentIds
                          THEN [intents EXCEPT ![intentId].status = "CONFIRMED"]
                          ELSE intents
            /\ UNCHANGED <<history, garments>>
       [] w = "history" ->
            /\ history' = IF intentId \in IntentIds
                          THEN Append(history,
                                 [swap_intent_id |-> intentId,
                                  garment_a_id |-> intent.garment_a_id,
                                  garment_b_id |-> intent.garment_b_id,
                                  owner_a_id |-> intent.owner_a_id,
                                  owner_b_id |-> intent.owner_b_id,
                                  compatibility_score |-> intent.compatibility_score,
                                  fairness_score |-> intent.fairness_score])
                          ELSE history
            /\ UNCHANGED <<intents, garments>>
       [] w = "ownerA" ->
            /\ garments' = IF intent.garment_a_id \in deletedGarments
                           THEN garments
                           ELSE [garments EXCEPT
                                   ![intent.garment_a_id].owner_id =
                                      intent.owner_b_id]
            /\ UNCHANGED <<intents, history>>
       [] OTHER ->
            /\ garments' = IF intent.garment_b_id \in deletedGarments
                           THEN garments
                           ELSE [garments EXCEPT
                                   ![intent.garment_b_id].owner_id =
                                      intent.owner_a_id]
            /\ UNCHANGED <<intents, history>>

\* a confirmation whose failure undoes the writes it has made
ConfirmWrite_Transaction(outcome) ==
  /\ confirming.pc \in {"intent", "history", "ownerA", "ownerB"}
  /\ confirming.pc = "history" /\ outcome = "ok" => Len(history) < MaxHistory
  /\ CASE outcome = "ok" -> ConfirmApply(confirming.pc)
       [] outcome = "rejected" -> UNCHANGED <<garments, intents, history>>
       [] OTHER ->
            /\ intents' = [intents EXCEPT ![confirming.id].status =
                                            confirming.status]
            /\ history' = SelectSeq(history,
                 LAMBDA row : row.swap_intent_id # confirming.id)
            /\ UNCHANGED garments
  /\ IF outcome = "throws"
     THEN /\ confirmResult' = [intent |-> confirming.id, success |-> FALSE,
                               status |-> "none", error |-> "exception"]
          /\ confirming' = NoConfirm
     ELSE IF confirming.pc = "ownerB"
     THEN /\ confirmResult' = [intent |-> confirming.id, success |-> TRUE,
                               status |-> confirming.status, error |-> ""]
          /\ confirming' = NoConfirm
     ELSE /\ confirmResult' = NoResult
          /\ confirming' = [confirming EXCEPT !.pc = WriteAfter(confirming.pc)]
  /\ log' = NoLog
  /\ UNCHANGED <<now, tickVars, applied, runVars, deletedGarments,
                 removedIntents, client>>

\* lines 226-268: one of the four writes, then the next one or the return;
\* the error a rejected write returns is not looked at; what the client
\* raises is caught at line 265
ConfirmWrite(outcome) ==
  /\ confirming.pc \in {"intent", "history", "ownerA", "ownerB"}
  /\ confirming.pc = "history" /\ outcome = "ok" => Len(history) < MaxHistory
  /\ IF outcome = "ok" THEN ConfirmApply(confirming.pc)
     ELSE UNCHANGED <<garments, intents, history>>
  /\ IF outcome = "throws"
     THEN /\ confirmResult' = [intent |-> confirming.id, success |-> FALSE,
                               status |-> "none", error |-> "exception"]
          /\ confirming' = NoConfirm
     ELSE IF confirming.pc = "ownerB"
     THEN /\ confirmResult' = [intent |-> confirming.id, success |-> TRUE,
                               status |-> confirming.status, error |-> ""]
          /\ confirming' = NoConfirm
     ELSE /\ confirmResult' = NoResult
          /\ confirming' = [confirming EXCEPT !.pc = WriteAfter(confirming.pc)]
  /\ log' = NoLog
  /\ UNCHANGED <<now, tickVars, applied, runVars, deletedGarments,
                 removedIntents, client>>

\* a decline endpoint that refuses an intent that is no longer open
Decline_OnlyOpen(intentId) ==
  /\ intentId \in IntentIds
  /\ Open(intentId)
  /\ intents' = [intents EXCEPT ![intentId].status = "DECLINED",
                                ![intentId].responded_at = now]
  /\ confirmResult' = NoResult
  /\ log' = NoLog
  /\ UNCHANGED <<applied, runVars, deletedGarments, removedIntents,
                 confirming, client>>
  /\ UNCHANGED <<garments, history, now, tickVars>>

\* POST /api/swap-intents/:id/decline
Decline(intentId) ==
  /\ intentId \in IntentIds
  /\ intents' = [intents EXCEPT ![intentId].status = "DECLINED",
                                ![intentId].responded_at = now]
  /\ confirmResult' = NoResult
  /\ log' = NoLog
  /\ UNCHANGED <<applied, runVars, deletedGarments, removedIntents,
                 confirming, client>>
  /\ UNCHANGED <<garments, history, now, tickVars>>

\* swap_history.swap_intent_id of a row whose intent is gone
NoIntent == 0

\* DELETE /api/garments/:id, with the foreign keys' actions: the intents of
\* the garment are deleted with it, and the history rows of those intents
\* lose their swap_intent_id
DeleteGarment(g) ==
  /\ g \notin deletedGarments
  /\ deletedGarments' = deletedGarments \cup {g}
  /\ LET cascade == {i \in IntentIds : \/ intents[i].garment_a_id = g
                                       \/ intents[i].garment_b_id = g}
     IN /\ removedIntents' = removedIntents \cup cascade
        /\ history' = [k \in 1..Len(history) |->
                         IF history[k].swap_intent_id \in cascade
                         THEN [history[k] EXCEPT !.swap_intent_id = NoIntent]
                         ELSE history[k]]
  /\ confirmResult' = NoResult
  /\ log' = NoLog
  /\ UNCHANGED <<applied, runVars, confirming, client>>
  /\ UNCHANGED <<garments, intents, now, tickVars>>

\* PUT /api/garments/:id with body {active: false}
Deactivate(g) ==
  /\ g \notin deletedGarments
  /\ garments[g].active
  /\ garments' = [garments EXCEPT ![g].active = FALSE]
  /\ confirmResult' = NoResult
  /\ log' = NoLog
  /\ UNCHANGED <<applied, runVars, deletedGarments, removedIntents,
                 confirming, client>>
  /\ UNCHANGED <<intents, history, now, tickVars>>

\* time passes
AdvanceTime ==
  /\ now + 8 <= MaxNow
  /\ now' = now + 8
  /\ confirmResult' = NoResult
  /\ log' = NoLog
  /\ UNCHANGED <<applied, runVars, deletedGarments, removedIntents,
                 confirming, client>>
  /\ UNCHANGED <<garments, intents, history, tickVars>>

\* a day passes, between two ticks
AdvanceDay ==
  /\ now < MaxNow
  /\ \A t \in Ticks : pc[t] = "idle"
  /\ now' = now + 1
  /\ confirmResult' = NoResult
  /\ log' = NoLog
  /\ UNCHANGED <<applied, runVars, deletedGarments, removedIntents,
                 confirming, client>>
  /\ UNCHANGED <<garments, intents, history, tickVars>>

\* --------------------------------------------------------- browser client
DEMO_USER_ID == "alice"
Loads == {"garments", "swapIntents", "swapHistory"}
Pages == {"closet", "matches", "history"}

\* what the three GET endpoints answer for ?ownerId=DEMO_USER_ID when the
\* query succeeds: the garments of the owner, the intents the owner is a
\* party of (each with its status), the history rows of the owner
ServerRows(which) ==
  CASE which = "garments" ->
         {g \in Garments \ deletedGarments :
            garments[g].owner_id = DEMO_USER_ID}
    [] which = "swapIntents" ->
         {<<i, intents[i].status>> : i \in
            {j \in IntentIds : \/ intents[j].owner_a_id = DEMO_USER_ID
                               \/ intents[j].owner_b_id = DEMO_USER_ID}}
    [] which = "swapHistory" ->
         {k \in 1..Len(history) : \/ history[k].owner_a_id = DEMO_USER_ID
                                  \/ history[k].owner_b_id = DEMO_USER_ID}

\* renderCloset(), renderMatches(), renderHistory(): each reads length,
\* filter or map of its variable, which an object {error} does not have
render(c, page) ==
  LET shown == CASE page = "closet" -> c.garments
                 [] page = "matches" -> c.swapIntents
                 [] page = "history" -> c.swapHistory
  IN IF shown.array THEN "ok" ELSE "TypeError"

\* loadData() after its three loads, lines 76-82: the matches badge
\* filters swapIntents, then the current page is rendered
loadDataRenders(c) ==
  IF c.swapIntents.array THEN render(c, c.currentPage) ELSE "TypeError"

\* loadData(), lines 69-74: the three loads are started; the loads of one
\* poll have returned before the next poll starts
LoadData ==
  /\ client.pending = {}
  /\ client' = [client EXCEPT !.pending = Loads]
  /\ confirmResult' = NoResult
  /\ log' = NoLog
  /\ UNCHANGED <<applied, runVars, deletedGarments, removedIntents,
                 confirming>>
  /\ UNCHANGED <<garments, intents, history, now, tickVars>>

\* how a fetch ends: a response with the rows, no response (fetch rejects),
\* or a response with status 500 and the body {error}
FetchOutcomes == {"ok", "networkFailure", "httpError"}

\* loadGarments(), loadSwapIntents(), loadSwapHistory(), lines 85-110: the
\* body of whatever response arrives is assigned, the status is not looked
\* at; a rejected fetch is caught and leaves the variable alone. The load
\* that returns last lets loadData() go on to render.
Load(which, outcome) ==
  /\ which \in client.pending
  /\ LET body == CASE outcome = "ok" ->
                       [array |-> TRUE, rows |-> ServerRows(which)]
                  [] outcome = "networkFailure" -> client[which]
                  [] outcome = "httpError" -> ErrorBody
         loaded == [client EXCEPT ![which] = body,
                                  !.pending = @ \ {which}]
     IN client' = IF loaded.pending = {}
                  THEN [loaded EXCEPT !.rendering = loadDataRenders(loaded)]
                  ELSE loaded
  /\ confirmResult' = NoResult
  /\ log' = NoLog
  /\ UNCHANGED <<applied, runVars, deletedGarments, removedIntents,
                 confirming>>
  /\ UNCHANGED <<garments, intents, history, now, tickVars>>

\* navigateToPage(page), lines 27-38
navigateToPage(page) ==
  /\ page # client.currentPage
  /\ client' = [client EXCEPT !.currentPage = page,
                              !.rendering = render(client, page)]
  /\ confirmResult' = NoResult
  /\ log' = NoLog
  /\ UNCHANGED <<applied, runVars, deletedGarments, removedIntents,
                 confirming>>
  /\ UNCHANGED <<garments, intents, history, now, tickVars>>

\* a tick() without its catch: the exception reaches the caller, and the
\* start() that awaited the tick is rejected before it arms the timer
Throw_Escapes(t) ==
  /\ pc[t] \in {"agentTick", "check", "create", "touch", "pendingLoad",
                "handle", "acceptedLoad"}
  /\ TickDone(t)
  /\ todo' = [todo EXCEPT ![t] = <<>>]
  /\ bestMatch' = [bestMatch EXCEPT ![t] = NoGarment]
  /\ pendingIntents' = [pendingIntents EXCEPT ![t] = <<>>]
  /\ acceptedIntents' = [acceptedIntents EXCEPT ![t] = <<>>]
  /\ confirmResult' = NoResult
  /\ log' = "Error in orchestrator tick"
  /\ startPc' = IF t = "start" THEN "none" ELSE startPc
  /\ UNCHANGED <<applied, isRunning, intervalId, timers, deletedGarments,
                 removedIntents, confirming, client>>
  /\ UNCHANGED <<garments, intents, history, now>>

\* the catch of tick(), lines 74-76: an exception raised under an agent's
\* tick, under processPendingIntents or under the query of
\* processAcceptedIntents ends the tick
Throw(t) ==
  /\ pc[t] \in {"agentTick", "check", "create", "touch", "pendingLoad",
                "handle", "acceptedLoad"}
  /\ TickDone(t)
  /\ todo' = [todo EXCEPT ![t] = <<>>]
  /\ bestMatch' = [bestMatch EXCEPT ![t] = NoGarment]
  /\ pendingIntents' = [pendingIntents EXCEPT ![t] = <<>>]
  /\ acceptedIntents' = [acceptedIntents EXCEPT ![t] = <<>>]
  /\ confirmResult' = NoResult
  /\ log' = "Error in orchestrator tick"
  /\ UNCHANGED <<applied, runVars, deletedGarments, removedIntents,
                 confirming, client>>
  /\ UNCHANGED <<garments, intents, history, now>>

\* the catch of generateDialogueForIntent, lines 173-175: an exception
\* raised under it ends the work on that intent only
DialogueThrows(t) ==
  /\ pc[t] = "dialogue"
  /\ acceptedIntents' = [acceptedIntents EXCEPT ![t] = Tail(@)]
  /\ IF Len(acceptedIntents[t]) = 1
     THEN TickDone(t)
     ELSE UNCHANGED <<pc, agents, proposed>>
  /\ confirmResult' = NoResult
  /\ log' = "Error generating dialogue for intent"
  /\ UNCHANGED <<applied, runVars, deletedGarments, removedIntents,
                 confirming, client>>
  /\ UNCHANGED <<garments, intents, history, now, todo, bestMatch,
                 pendingIntents>>

\* a start() that does not look at isRunning
Start_NoGuard ==
  /\ startPc = "none"
  /\ isRunning' = TRUE
  /\ startPc' = "tick"
  /\ tick("start", loadActiveGarments)
  /\ UNCHANGED <<intervalId, timers>>

\* start(), lines 17-26: the call, up to the answer to the garments query
\* of the tick it awaits.  A start() is called while none is in progress,
\* or while the orchestrator is running.
Start ==
  /\ isRunning \/ startPc = "none"
  /\ IF isRunning
     THEN /\ log' = "Orchestrator already running"
          /\ confirmResult' = NoResult
          /\ UNCHANGED <<garments, intents, history, now, tickVars, applied,
                         runVars, deletedGarments, removedIntents,
                         confirming, client>>
     ELSE /\ isRunning' = TRUE
          /\ startPc' = "tick"
          /\ tick("start", loadActiveGarments)
          /\ UNCHANGED <<intervalId, timers>>

\* start(), lines 28-32: the tick it awaited has returned
StartArm ==
  /\ startPc = "tick"
  /\ pc["start"] = "idle"
  /\ Cardinality(timers) < MaxTimers
  /\ LET id == CHOOSE k \in 1..MaxTimers : k \notin timers
     IN /\ intervalId' = id
        /\ timers' = timers \cup {id}
  /\ startPc' = "none"
  /\ confirmResult' = NoResult
  /\ log' = NoLog
  /\ UNCHANGED <<garments, intents, history, now, tickVars, applied,
                 isRunning, deletedGarments, removedIntents, confirming,
                 client>>

\* stop(), lines 35-47
Stop ==
  /\ IF ~isRunning
     THEN /\ UNCHANGED runVars
          /\ log' = NoLog
     ELSE /\ isRunning' = FALSE
          /\ IF intervalId # 0
             THEN /\ timers' = timers \ {intervalId}
                  /\ intervalId' = 0
             ELSE UNCHANGED <<intervalId, timers>>
          /\ UNCHANGED startPc
          /\ log' = "Orchestrator stopped"
  /\ confirmResult' = NoResult
  /\ UNCHANGED <<garments, intents, history, now, tickVars, applied,
                 deletedGarments, removedIntents, confirming, client>>

\* the callback of an armed interval timer, lines 28-30
TimerFires ==
  /\ timers # {}
  /\ TickStart("timer")

\* one round trip of a tick t that has started
TickRun(t) ==
       \/ AgentTick(t)
       \/ AgentCheck(t)
       \/ AgentCreate(t)
       \/ updateLastMatchAttempt(t)
       \/ PendingLoad(t)
       \/ HandleProposal(t)
       \/ AcceptedLoad(t)
       \/ GenerateDialogue(t)

\* one round trip of tick t
TickStep(t) ==
       \/ TickStart(t)
       \/ AgentTick(t)
       \/ AgentCheck(t)
       \/ AgentCreate(t)
       \/ updateLastMatchAttempt(t)
       \/ PendingLoad(t)
       \/ HandleProposal(t)
       \/ AcceptedLoad(t)
       \/ GenerateDialogue(t)

\* Ticks that do not overlap and the swap-intent endpoints, within one day.
Next ==
  \/ TickStep("timer")
  \/ \E intentId \in 1..MaxIntents : Confirm(intentId) \/ Decline(intentId)

Spec == Init /\ [][Next]_vars

\* every garment created with the column default of min_acceptable_score
DefaultScores == [g \in Garments |-> Pct(65)]

InitDefault ==
  /\ Fresh(DefaultScores)
  /\ Started
  /\ applied = NoCall

\* The same steps from garments that all have the default threshold.
SpecApi == InitDefault /\ [][Next]_vars

\* Ticks that do not overlap and the decline endpoint, over the days.
NextClock ==
  \/ TickStep("timer")
  \/ \E intentId \in 1..MaxIntents : Decline(intentId)
  \/ AdvanceTime

SpecClock == Init /\ [][NextClock]_vars

\* The running orchestrator over the days, nothing else writing: the timer
\* keeps firing and every storage round trip of a tick returns, so a tick
\* that can take a step does; the clock goes on, days passing between ticks.
\* The agent's tick() is enabled exactly when the tick is at "agentTick";
\* its weak fairness is written out with that condition.
NextLive ==
  \/ TickStep("timer")
  \/ AdvanceDay

SpecLive ==
  /\ InitDefault
  /\ [][NextLive]_vars
  /\ WF_vars(TickStart("timer"))
  /\ \/ []<>(pc["timer"] # "agentTick")
     \/ []<><<AgentTick("timer")>>_vars
  /\ WF_vars(AgentCheck("timer"))
  /\ WF_vars(AgentCreate("timer"))
  /\ WF_vars(updateLastMatchAttempt("timer"))
  /\ WF_vars(PendingLoad("timer"))
  /\ WF_vars(HandleProposal("timer"))
  /\ WF_vars(AcceptedLoad("timer"))
  /\ WF_vars(GenerateDialogue("timer"))
  /\ SF_vars(AdvanceDay)

\* Overlapping ticks: the timer fires, or the trigger endpoint is called,
\* while an earlier tick is still awaiting storage.
NextOverlap ==
  \/ \E t \in {"timer", "trigger"} : TickStep(t) \/ DialogueUnavailable(t)
  \/ \E intentId \in 1..MaxIntents : Decline(intentId)

SpecOverlap == Init /\ [][NextOverlap]_vars

\* The timer's ticks and the ticks of the trigger endpoint, started at any
\* time, from garments that all have the default threshold.
NextTrigger == \E t \in {"timer", "trigger"} : TickStep(t)

SpecTrigger == InitDefault /\ [][NextTrigger]_vars

\* The two ticks while the query of the existence check may fail.
NextCheck == \E t \in {"timer", "trigger"} : TickStep(t) \/ CheckFails(t)

SpecCheck == InitDefault /\ [][NextCheck]_vars

\* The two ticks while garments are deactivated through the API: a tick
\* may meet an intent that another tick, with an older snapshot, inserted.
NextSkip ==
  \/ \E t \in {"timer", "trigger"} : TickStep(t)
  \/ \E g \in Garments : Deactivate(g)

SpecSkip == InitDefault /\ [][NextSkip]_vars

\* Ticks that do not overlap while garments are deactivated through the
\* API and the garments query may fail.
NextDeactivate ==
  \/ TickStep("timer")
  \/ LoadFails("timer")
  \/ \E g \in Garments : Deactivate(g)

SpecDeactivate == Init /\ [][NextDeactivate]_vars

\* Ticks that do not overlap, confirmations, and garments being deleted
\* through the API.
NextDelete ==
  \/ TickStep("timer")
  \/ \E intentId \in 1..MaxIntents : Confirm(intentId)
  \/ \E g \in Garments : DeleteGarment(g)

SpecDelete == Init /\ [][NextDelete]_vars

\* one round trip of a call of confirmSwap whose writes storage applies
ConfirmStep ==
  \/ \E intentId \in 1..MaxIntents : ConfirmLoadIntent(intentId)
  \/ ConfirmLoadGarmentA
  \/ ConfirmLoadGarmentB
  \/ ConfirmWrite("ok")

\* Ticks that do not overlap and, between two ticks, calls of confirmSwap,
\* one at a time, round trip by round trip, any of its writes failing.
NextConfirm ==
  \/ confirming.pc = "none" /\ TickStep("timer")
  \/ /\ pc["timer"] = "idle"
     /\ \/ ConfirmStep
        \/ \E outcome \in Outcomes \ {"ok"} : ConfirmWrite(outcome)

SpecConfirm == InitDefault /\ [][NextConfirm]_vars

\* Ticks that do not overlap and, between two ticks, calls of confirmSwap,
\* one at a time, round trip by round trip, while garments are deleted
\* through the API.
NextConfirmDelete ==
  \/ confirming.pc = "none" /\ TickStep("timer")
  \/ pc["timer"] = "idle" /\ ConfirmStep
  \/ \E g \in Garments : DeleteGarment(g)

SpecConfirmDelete == InitDefault /\ [][NextConfirmDelete]_vars

\* The browser client polling the API while ticks that do not overlap run
\* and swaps are confirmed; a poll starts between two ticks.
NextClient ==
  \/ client.pending = {} /\ TickStep("timer")
  \/ client.pending = {} /\ \E intentId \in 1..MaxIntents : Confirm(intentId)
  \/ pc["timer"] = "idle" /\ LoadData
  \/ \E which \in Loads, outcome \in FetchOutcomes : Load(which, outcome)
  \/ \E page \in Pages : navigateToPage(page)

SpecClient == InitDefault /\ [][NextClient]_vars

\* The orchestrator from its construction: start() and stop() called in any
\* order, the ticks of start() and of the timers, exceptions under a tick.
InitRun ==
  /\ Fresh(DefaultScores)
  /\ Constructed
  /\ applied = NoCall

NextRun ==
  \/ Start
  \/ StartArm
  \/ Stop
  \/ TimerFires
  \/ \E t \in {"start", "timer"} : TickRun(t) \/ Throw(t) \/ DialogueThrows(t)

SpecRun == InitRun /\ [][NextRun]_vars

\* ------------------------------------------- the engine applied directly
\* thresholds from 0 to 1 in steps of 0.05, patience from 0 to 1 in tenths
Scores == {Pct(5 * k) : k \in 0..20}
Tenths == 0..10

\* totals from 0 to 1 in steps of 0.004
FineScores == {k * (One \div 250) : k \in 0..250}

\* style tags, and the tag lists of up to MaxTags entries
Tags == {"a", "b", "c", "d"}
TagLists == UNION {[1..n -> Tags] : n \in 0..MaxTags}

\* garments as the engine reads them: tag lists with and without repeats,
\* vibe and personality present or empty, condition and rarity in tenths
EngineGarments ==
  [style_tags : {<<>>, <<"a">>, <<"b", "a", "a">>},
   vibe : {"", "elegant", "rebellious"},
   personality : {{}, {"bold", "shy"}},
   category : {"Tops", "Outerwear"}, size : {"M"},
   condition : {3, 10}, rarity : {0, 7}]
   \cup
  [style_tags : {<<"a">>}, vibe : {"elegant"}, personality : {{"bold"}},
   category : {"Tops"}, size : {"S", "M"}, condition : {8}, rarity : {5}]

\* the weights argument merged over the defaults, in hundredths
EngineWeights ==
  {defaultWeights,
   [defaultWeights EXCEPT !.style = 50, !.rarity = 0, !.condition = 5]}

\* the arguments are drawn first, the function is applied in a step
InitFn ==
  /\ Fresh([g \in Garments |-> Pct(65)])
  /\ Started
  /\ applied \in
       [fn : {"degradeStandards"}, patience : Tenths,
        min_acceptable_score : Scores, daysUnmatched : 0..MaxDays,
        done : {FALSE}, result : {0}]
       \cup
       [fn : {"generateDialogue"}, total : FineScores, fairness : Scores,
        response : Responses, done : {FALSE}, result : {NoDialogue}]
       \cup
       [fn : {"styleScore"}, tagsA : TagLists, tagsB : TagLists,
        done : {FALSE}, result : {0}]
       \cup
       [fn : {"calculateCompatibility"}, garmentA : EngineGarments,
        garmentB : EngineGarments, weights : EngineWeights,
        done : {FALSE}, result : {0}]

ApplyDegradeStandards ==
  /\ applied.fn = "degradeStandards"
  /\ ~applied.done
  /\ applied' = [applied EXCEPT
       !.done = TRUE,
       !.result = degradeStandards(
          [patience |-> applied.patience,
           min_acceptable_score |-> applied.min_acceptable_score],
          applied.daysUnmatched)]
  /\ UNCHANGED <<garments, intents, history, now, tickVars, confirmResult,
                 log, runVars, deletedGarments, removedIntents, confirming,
                 client>>

ApplyGenerateDialogue ==
  /\ applied.fn = "generateDialogue"
  /\ ~applied.done
  /\ applied' = [applied EXCEPT
       !.done = TRUE,
       !.result = generateDialogue(
          [total |-> applied.total, fairness |-> applied.fairness],
          applied.response)]
  /\ UNCHANGED <<garments, intents, history, now, tickVars, confirmResult,
                 log, runVars, deletedGarments, removedIntents, confirming,
                 client>>

ApplyStyleScore ==
  /\ applied.fn = "styleScore"
  /\ ~applied.done
  /\ applied' = [applied EXCEPT
       !.done = TRUE,
       !.result = styleScore([style_tags |-> applied.tagsA],
                             [style_tags |-> applied.tagsB])]
  /\ UNCHANGED <<garments, intents, history, now, tickVars, confirmResult,
                 log, runVars, deletedGarments, removedIntents, confirming,
                 client>>

ApplyCalculateCompatibility ==
  /\ applied.fn = "calculateCompatibility"
  /\ ~applied.done
  /\ applied' = [applied EXCEPT
       !.done = TRUE,
       !.result = calculateCompatibility(applied.garmentA, applied.garmentB,
                                         applied.weights)]
  /\ UNCHANGED <<garments, intents, history, now, tickVars, confirmResult,
                 log, runVars, deletedGarments, removedIntents, confirming,
                 client>>

NextFn ==
  \/ ApplyDegradeStandards
  \/ ApplyGenerateDialogue
  \/ ApplyStyleScore
  \/ ApplyCalculateCompatibility

SpecFn == InitFn /\ [][NextFn]_vars

\* =================================================================== claims
\* the step in which tick t runs handleProposal on intent i
HandledBy(t, i) ==
  /\ pc[t] = "handle"
  /\ pendingIntents[t] # <<>>
  /\ Head(pendingIntents[t]) = i
  /\ pendingIntents'[t] = Tail(pendingIntents[t])
  /\ intents[i].garment_a_id \in Loaded(t)
  /\ intents[i].garment_b_id \in Loaded(t)

\* the step in which confirmSwap(i) returns success
Confirmed(i) == confirmResult'.intent = i /\ confirmResult'.success

Owned(u) == Cardinality({g \in Garments : garments[g].owner_id = u})
HistoryOf(i) == {k \in 1..Len(history) : history[k].swap_intent_id = i}

\* C1: a swap intent's status changes only along PENDING->ACCEPTED,
\* ACCEPTED->CONFIRMED or PENDING->DECLINED; DECLINED and CONFIRMED are final.
C1_StatusLifecycle ==
  [][\A i \in IntentIds :
       intents'[i].status # intents[i].status =>
         <<intents[i].status, intents'[i].status>> \in
           {<<"PENDING", "ACCEPTED">>, <<"ACCEPTED", "CONFIRMED">>,
            <<"PENDING", "DECLINED">>}]_vars

\* C2: for every unordered pair of garments at most one intent with status
\* PENDING or ACCEPTED exists, counting both orientations.
C2_OneOpenIntentPerPair ==
  \A x \in Garments, y \in Garments :
    x # y => Cardinality(OpenBetween(x, y)) <= 1

C4_ConfirmOnlyAccepted ==
  [][\A i \in IntentIds :
       (confirmResult'.intent = i /\ intents[i].status # "ACCEPTED")
       => /\ ~confirmResult'.success
          /\ UNCHANGED <<intents, garments, history>>]_vars

\* C5: every successful confirmSwap of an ACCEPTED intent is an exchange:
\* garment A receives the owner garment B had immediately before the call,
\* garment B the owner garment A had, and every user owns as many garments
\* after the call as before it.
C5_ConfirmIsExchange ==
  [][\A i \in IntentIds :
       (Confirmed(i) /\ intents[i].status = "ACCEPTED")
       => /\ garments'[intents[i].garment_a_id].owner_id
               = garments[intents[i].garment_b_id].owner_id
          /\ garments'[intents[i].garment_b_id].owner_id
               = garments[intents[i].garment_a_id].owner_id
          /\ \A u \in Users : Owned(u)' = Owned(u)]_vars

\* C6: at most one swap_history row references any one swap intent.
C6_OneHistoryRowPerIntent ==
  \A i \in IntentIds : Cardinality(HistoryOf(i)) <= 1

\* C7: no step of a tick raises a garment's stored min_acceptable_score.
C7_ThresholdNeverRaised ==
  [][\A g \in Garments :
       garments'[g].min_acceptable_score <= garments[g].min_acceptable_score]_vars

\* C8: degradeStandards returns max(0.4, threshold - (1 - patience) * 0.01 *
\* days): never less than 0.4; 0.4 for patience 0.5, threshold 0.65 and 100
\* days; 0.55 for patience 0.9.
C8_DegradeStandards ==
  (applied.fn = "degradeStandards" /\ applied.done) =>
    LET lowered == applied.min_acceptable_score
                     - (10 - applied.patience) * applied.daysUnmatched
                         * (One \div 1000)
    IN /\ applied.result >= Pct(40)
       /\ applied.result = IF lowered < Pct(40) THEN Pct(40) ELSE lowered
       /\ (/\ applied.min_acceptable_score = Pct(65)
           /\ applied.daysUnmatched = 100)
          => /\ applied.patience = 5 => applied.result = Pct(40)
             /\ applied.patience = 9 => applied.result = Pct(55)

\* C8 witness: patience 0.5, threshold 0.65, 100 days: the floor is reached.
C8_Witness ==
  /\ applied.fn = "degradeStandards"
  /\ applied.done
  /\ applied.patience = 5
  /\ applied.min_acceptable_score = Pct(65)
  /\ applied.daysUnmatched = 100
  /\ applied.result = Pct(40)

\* the decision as the claim states it, for an evaluating garment and the
\* other garment as the evaluator sees them
Affirmative(evaluating, other, compatibility) ==
  /\ evaluating.active
  /\ other.active
  /\ evaluating.owner_id # other.owner_id
  /\ compatibility.total >= evaluating.min_acceptable_score
  /\ compatibility.fairness >= Pct(50)

C9_Example ==
  LET X == [active |-> TRUE, owner_id |-> "alice",
            min_acceptable_score |-> Pct(65)]
      Y == [active |-> TRUE, owner_id |-> "bob",
            min_acceptable_score |-> Pct(80)]
      c == [total |-> Pct(70), fairness |-> Pct(90)]
  IN shouldProposeSwap(X, Y, c) /\ ~shouldProposeSwap(Y, X, c)

\* C9: a decision is affirmative exactly when both garments are active,
\* their owners differ, the total is at least the evaluating garment's own
\* threshold and the fairness is at least 0.5.  An intent is inserted only
\* on the proposer's affirmative decision; handleProposal writes ACCEPTED on
\* the recipient's affirmative decision and DECLINED otherwise; nothing else
\* makes an intent ACCEPTED.  Total 0.70 with fairness 0.9 is affirmative
\* for threshold 0.65 and negative for threshold 0.80.
C9_DecisionByOwnThreshold ==
  [][/\ C9_Example
     /\ \A t \in Ticks, i \in IntentIds :
          HandledBy(t, i) =>
            LET this == AgentOf(t, intents[i].garment_b_id)
                proposer == AgentOf(t, intents[i].garment_a_id)
                c == calculateCompatibility(proposer, this, defaultWeights)
            IN intents'[i].status =
                 IF Affirmative(this, proposer, c) THEN "ACCEPTED"
                 ELSE "DECLINED"
     /\ \A i \in IntentIds :
          (intents[i].status # "ACCEPTED" /\ intents'[i].status = "ACCEPTED")
          => \E t \in Ticks : HandledBy(t, i)
     /\ \A t \in Ticks :
          (pc[t] = "create" /\ Len(intents') = Len(intents) + 1) =>
            LET new == intents'[Len(intents')]
                this == AgentOf(t, new.garment_a_id)
                other == AgentOf(t, new.garment_b_id)
            IN Affirmative(this, other,
                 [total |-> new.compatibility_score,
                  fairness |-> new.fairness_score])]_vars

\* C9 witness: one intent accepted, and one declined by a recipient whose
\* threshold the total misses although it meets the proposer's.
C9_Witness ==
  \E i \in IntentIds, j \in IntentIds :
    /\ intents[i].status = "ACCEPTED"
    /\ intents[j].status = "DECLINED"
    /\ intents[j].compatibility_score
         < garments[intents[j].garment_b_id].min_acceptable_score
    /\ intents[j].compatibility_score
         >= garments[intents[j].garment_a_id].min_acceptable_score

\* C10: handleProposal never changes the status of an intent whose stored
\* status is not PENDING at the moment it writes.
C10_HandleProposalOnlyPending ==
  [][\A t \in Ticks, i \in IntentIds :
       (HandledBy(t, i) /\ intents[i].status # "PENDING")
       => intents'[i].status = intents[i].status]_vars

\* the step of an API handler, other than confirm, that writes intent i
WrittenByApi(i) ==
  /\ UNCHANGED tickVars
  /\ confirmResult' = NoResult
  /\ i \in IntentIds'
  /\ intents'[i] # intents[i]

\* C11: the decline endpoint can be applied to an intent in any status; it
\* leaves the intent DECLINED with responded_at set to the time of the call,
\* and changes nothing else: no other column, no other intent, no garment
\* and no history row.
C11_DeclineUnconditional ==
  /\ [](\A i \in IntentIds :
          ENABLED (Decline(i) /\ intents'[i].status = "DECLINED"
                              /\ intents'[i].responded_at = now))
  /\ [][\A i \in IntentIds :
          WrittenByApi(i) =>
            /\ intents' = [intents EXCEPT ![i].status = "DECLINED",
                                          ![i].responded_at = now]
            /\ UNCHANGED <<garments, history>>]_vars

\* C11 witness: an intent that was confirmed, and so has its history row,
\* has been declined.
C11_Witness ==
  \E i \in IntentIds :
    /\ intents[i].status = "DECLINED"
    /\ intents[i].responded_at = now
    /\ HistoryOf(i) # {}

\* C12: an intent receives its dialogue_text only from a tick that loaded it
\* as ACCEPTED, and a dialogue_text once written is never written over.
C12_DialogueWrittenOnce ==
  [][\A i \in IntentIds :
       /\ (intents[i].dialogue_text = NoDialogue
            /\ intents'[i].dialogue_text # NoDialogue)
          => \E t \in Ticks : /\ pc[t] = "dialogue"
                              /\ Head(acceptedIntents[t]) = i
       /\ intents[i].dialogue_text # NoDialogue
          => intents'[i].dialogue_text = intents[i].dialogue_text]_vars

\* p is x times 100, rounded to the nearest whole number
IsRounded100(p, x) == p \in 0..100 /\ 2 * Abs(x * 100 - p * One) <= One

\* C13: whenever the dialogue service does not deliver the two narration
\* texts - the call fails or times out, or the answer lacks them -
\* generateDialogue returns the templated pair, with the two scores times
\* 100, rounded.
C13_FallbackOnFailure ==
  (applied.fn = "generateDialogue" /\ applied.done
   /\ applied.response # "texts")
  => /\ applied.result.text = "templated"
     /\ IsRounded100(applied.result.compatibility, applied.total)
     /\ IsRounded100(applied.result.fairness, applied.fairness)

\* C14: a tick started while fewer than two garments are active goes no
\* further than the load; and a tick that stops at the load, for that
\* reason or because the load failed, writes to no table and raises nothing.
C14_NoWorkBelowTwoGarments ==
  [][/\ \A t \in Ticks :
          (pc[t] = "idle" /\ Cardinality(loadActiveGarments) < 2)
          => pc'[t] = "idle"
     /\ log' = "Not enough active garments for matching"
          => /\ UNCHANGED <<garments, intents, history, deletedGarments,
                            removedIntents>>
             /\ UNCHANGED tickVars]_vars

\* C14 witness: a tick has just returned at the load, one garment being
\* active and an intent being in the table.
C14_Witness ==
  /\ log = "Not enough active garments for matching"
  /\ Cardinality(loadActiveGarments) = 1
  /\ IntentIds # {}
  /\ \A t \in Ticks : pc[t] = "idle"

\* C19: a swap intent row that exists still exists after every step.
C19_IntentsNeverRemoved ==
  [][\A i \in IntentIds : i \in IntentIds']_vars

\* C20: every step leaves the swap_history rows that exist as they are, in
\* every column; it can only add rows.
C20_HistoryAppendOnly ==
  [][/\ Len(history') >= Len(history)
     /\ SubSeq(history', 1, Len(history)) = history]_vars

\* C15: a start() called while the orchestrator is running, the initial
\* tick of the first start() being in progress or over, does nothing; while
\* the orchestrator runs no further initial tick is begun and no further
\* timer is armed; a timer is armed only by a start() whose initial tick has
\* returned, and one at a time.
C15_StartIdempotent ==
  [][/\ log' = "Orchestrator already running"
          => /\ isRunning
             /\ UNCHANGED <<garments, intents, history, tickVars, runVars>>
     /\ (isRunning /\ startPc = "none")
          => /\ startPc' = "none"
             /\ pc'["start"] = "idle"
             /\ timers' \subseteq timers
     /\ (isRunning /\ startPc = "tick" /\ pc["start"] = "idle")
          => pc'["start"] = "idle"
     /\ ~(timers' \subseteq timers)
          => /\ startPc = "tick"
             /\ pc["start"] = "idle"
             /\ Cardinality(timers' \ timers) = 1]_vars

\* C15 witness: start() has been called, and has returned at once, while the
\* initial tick of the first start() is in progress and no timer is armed.
C15_Witness ==
  /\ log = "Orchestrator already running"
  /\ isRunning
  /\ startPc = "tick"
  /\ pc["start"] # "idle"
  /\ timers = {}

\* C16: while isRunning is false no interval timer is armed, so that no
\* timer tick starts after stop(); and at most one timer is armed.
C16_StopCancelsTimer ==
  /\ ~isRunning => timers = {}
  /\ Cardinality(timers) <= 1

\* C17: a tick does not end while agents or pending intents it has loaded
\* are left: whatever happens under one agent's tick or one handleProposal,
\* the tick goes on to the next item or stage.
C17_FailuresIsolatedPerItem ==
  [][\A t \in Ticks :
       pc[t] \in {"agentTick", "check", "create", "touch", "handle"}
       => pc'[t] # "idle"]_vars

\* C18: an exception raised under a tick ends that tick and nothing else:
\* tick() returns, the timers stay armed, the running flag stays, and a
\* start() awaiting the tick is still on its way to arm its timer.
C18_TickNeverRaises ==
  [][log' = "Error in orchestrator tick"
       => /\ \E t \in Ticks : pc[t] # "idle" /\ pc'[t] = "idle"
          /\ UNCHANGED runVars]_vars

\* C18 witness: the initial tick of start() has failed; start() is about to
\* arm the timer.
C18_Witness ==
  /\ log = "Error in orchestrator tick"
  /\ isRunning
  /\ startPc = "tick"
  /\ pc["start"] = "idle"
  /\ timers = {}

\* C21: when a tick ends, every intent its agents proposed in it is still
\* PENDING: the recipient's evaluation is left to the next tick.
C21_EvaluatedOnNextTick ==
  [][\A t \in Ticks :
       (pc[t] # "idle" /\ pc'[t] = "idle")
       => \A i \in proposed[t] \cap IntentIds' :
            intents'[i].status = "PENDING"]_vars

\* C22: while the orchestrator keeps ticking, every garment whose threshold
\* is above 0.4 either proposes at some time or has its stored threshold
\* lowered at some time.  (All thresholds start at 0.65.)
C22_StandardsEventuallyLowered ==
  \A g \in Garments :
    <>(\/ garments[g].min_acceptable_score < Pct(65)
       \/ \E i \in IntentIds : intents[i].garment_a_id = g)

\* C23: a successful confirmSwap of an ACCEPTED intent returns the intent as
\* updated: the intent of its result, which is the body of the endpoint's
\* answer, has status CONFIRMED.
C23_ConfirmReturnsUpdatedIntent ==
  [][\A i \in IntentIds :
       (Confirmed(i) /\ intents[i].status = "ACCEPTED")
       => /\ confirmResult'.status = "CONFIRMED"
          /\ confirmResponse(confirmResult').code = 200
          /\ confirmResponse(confirmResult').status = "CONFIRMED"]_vars

\* the step is a round trip of the call of confirmSwap in progress, or the
\* first round trip of a call
ConfirmRoundTrip ==
  \/ confirming' # confirming
  \/ confirming.pc = "none" /\ confirmResult'.intent # 0

\* C27: confirmSwap for an id without an intent, or for an intent one of
\* whose garments is gone when confirmSwap loads it, returns a failure with
\* an error message, which the endpoint answers with 400, and has made no
\* write: the loads change no table and the failure comes before the writes.
C27_ConfirmNotFound ==
  [][ConfirmRoundTrip =>
       /\ confirming.pc \in {"none", "garmentA", "garmentB"}
            => UNCHANGED <<intents, garments, history>>
       /\ \A id \in 1..MaxIntents :
            (confirming.pc = "none" /\ confirmResult'.intent = id
               /\ id \notin IntentIds)
            => /\ ~confirmResult'.success
               /\ confirmResult'.error = "Intent not found"
               /\ confirmResponse(confirmResult').code = 400
               /\ confirming'.pc = "none"
       /\ (confirming.pc = "garmentA"
             /\ intents[confirming.id].garment_a_id \in deletedGarments)
            => confirming'.pc = "garmentB" /\ ~confirming'.found
       /\ (confirming.pc = "garmentB"
             /\ \/ ~confirming.found
                \/ intents[confirming.id].garment_b_id \in deletedGarments)
            => /\ confirmResult'.intent = confirming.id
               /\ ~confirmResult'.success
               /\ confirmResult'.error = "Garments not found"
               /\ confirmResponse(confirmResult').code = 400
               /\ confirming'.pc = "none"]_vars

\* C27 witness: confirmSwap has just failed for an intent whose garment B
\* was deleted after the intent had been loaded.
C27_Witness ==
  /\ confirmResult.error = "Garments not found"
  /\ confirmResult.intent \in removedIntents
  /\ intents[confirmResult.intent].garment_a_id \notin deletedGarments
  /\ intents[confirmResult.intent].garment_b_id \in deletedGarments
  /\ confirmResponse(confirmResult).code = 400

\* C28: the writes of confirmSwap come in the order intent, history, owner
\* of garment A, owner of garment B, one per round trip, and each writes
\* its own table only; a failing round trip ends the call and leaves what
\* was written before it as it is.
C28_WritesInOrderNoTransaction ==
  [][ConfirmRoundTrip =>
       /\ intents' # intents => confirming.pc = "intent"
       /\ history' # history => confirming.pc = "history"
       /\ garments' # garments => confirming.pc \in {"ownerA", "ownerB"}
       /\ \A g \in Garments :
            garments'[g] # garments[g] =>
              g = IF confirming.pc = "ownerA"
                  THEN intents[confirming.id].garment_a_id
                  ELSE intents[confirming.id].garment_b_id
       /\ <<confirming.pc, confirming'.pc>> \in
            {<<"none", "none">>, <<"none", "garmentA">>,
             <<"garmentA", "garmentB">>, <<"garmentB", "none">>,
             <<"garmentB", "intent">>, <<"intent", "history">>,
             <<"history", "ownerA">>, <<"ownerA", "ownerB">>,
             <<"intent", "none">>, <<"history", "none">>,
             <<"ownerA", "none">>, <<"ownerB", "none">>}
       /\ (confirming.pc \in {"intent", "history", "ownerA"}
             /\ confirming'.pc = "none")
            => /\ ~confirmResult'.success
               /\ UNCHANGED <<intents, garments, history>>]_vars

\* C28 witness: confirmSwap has just failed at its history insert: the
\* intent is CONFIRMED, it has no history row and both garments are with the
\* owners the intent records.
C28_Witness ==
  /\ confirmResult.intent \in IntentIds
  /\ ~confirmResult.success
  /\ LET intent == intents[confirmResult.intent]
     IN /\ intent.status = "CONFIRMED"
        /\ HistoryOf(confirmResult.intent) = {}
        /\ garments[intent.garment_a_id].owner_id = intent.owner_a_id
        /\ garments[intent.garment_b_id].owner_id = intent.owner_b_id

\* C29: when confirmSwap returns success all four writes have taken effect:
\* the intent is CONFIRMED, it has a history row, garment A is with the
\* intent's owner B and garment B with its owner A.
C29_SuccessMeansAllWritten ==
  [][\A i \in IntentIds :
       Confirmed(i) =>
         /\ intents'[i].status = "CONFIRMED"
         /\ HistoryOf(i)' # {}
         /\ garments'[intents[i].garment_a_id].owner_id = intents[i].owner_b_id
         /\ garments'[intents[i].garment_b_id].owner_id = intents[i].owner_a_id]_vars

\* C24: the style score of two tag lists is the number of distinct tags in
\* both over the number of distinct tags in either: 0 when there is no tag,
\* 0 when no tag is shared, 1 when the two lists hold the same tags, and 2/4
\* for a, b, c against b, c, d; repeated tags count once.
C24_StyleScoreIsJaccard ==
  (applied.fn = "styleScore" /\ applied.done) =>
    LET InA(x) == \E k \in 1..Len(applied.tagsA) : applied.tagsA[k] = x
        InB(x) == \E k \in 1..Len(applied.tagsB) : applied.tagsB[k] = x
        both == {x \in Tags : InA(x) /\ InB(x)}
        either == {x \in Tags : InA(x) \/ InB(x)}
    IN /\ applied.result * Cardinality(either) = Cardinality(both) * One
       /\ either = {} => applied.result = 0
       /\ both = {} => applied.result = 0
       /\ (either # {} /\ both = either) => applied.result = One
       /\ (applied.tagsA = <<"a", "b", "c">> /\ applied.tagsB = <<"b", "c", "d">>)
          => applied.result = One \div 2

\* C24 witness: a list with a repeated tag: a, b, b against b, c scores 1/3.
C24_Witness ==
  /\ applied.fn = "styleScore"
  /\ applied.done
  /\ applied.tagsA = <<"a", "b", "b">>
  /\ applied.tagsB = <<"b", "c">>
  /\ applied.result = One \div 3

\* C25: a polling fetch that fails, by a network failure or by an HTTP error
\* response, leaves the client's garments, swapIntents and swapHistory at
\* the values of the last successful fetch, and rendering goes on working:
\* each of the three only ever changes to the rows the server holds, and no
\* rendering ends in a TypeError.
C25_FailedPollKeepsLastValues ==
  [][/\ \A which \in Loads :
          client'[which] # client[which] =>
            client'[which] = [array |-> TRUE, rows |-> ServerRows(which)]
      /\ client'.rendering # "TypeError"]_vars

\* C26: tick() has no single-flight guard: whatever the other tick is
\* awaiting, the timer's tick and the tick of the trigger endpoint can
\* begin as soon as the previous call of their own has returned.
C26_NoSingleFlightGuard ==
  \A t \in {"timer", "trigger"} :
    pc[t] = "idle" => ENABLED TickStart(t)

\* two ticks in progress against the same storage, one awaiting storage
\* in its agents' loop and the other the dialogue service
C26_Witness ==
  \E t, u \in {"timer", "trigger"} :
    /\ t # u
    /\ pc[t] \in {"agentTick", "check", "create", "touch"}
    /\ pc[u] = "dialogue"

\* C30: in one agent tick of an active, owned garment, last_match_attempt is
\* set to the current time exactly when the tick does not go on to create
\* an intent: the tick goes to the update when it finds no eligible best
\* match or when the best match has an open intent with the garment, and to
\* the insert otherwise; the update sets last_match_attempt to now and
\* creates nothing, the insert creates the intent and leaves
\* last_match_attempt as it was.
C30_TouchedExactlyWhenNoIntent ==
  [][\A t \in {"timer", "trigger"} :
       LET g == Head(todo[t])
       IN /\ pc[t] = "agentTick" /\ pc'[t] # "agentTick" =>
               (pc'[t] = "touch" <=> bestMatch'[t] = NoGarment)
          /\ pc[t] = "check" /\ pc'[t] # "check" =>
               (pc'[t] = "touch" <=> OpenBetween(g, bestMatch[t]) # {})
          /\ pc[t] = "touch" /\ pc'[t] # "touch" =>
               /\ garments'[g].last_match_attempt = now
               /\ intents' = intents
          /\ pc[t] = "create" /\ pc'[t] # "create" =>
               /\ garments'[g].last_match_attempt =
                     garments[g].last_match_attempt
               /\ Len(intents') = Len(intents) + 1]_vars

\* position of garment g in the order the garments are loaded in
Position(g) == CHOOSE k \in 1..Len(GarmentOrder) : GarmentOrder[k] = g

\* the garments of tick t's snapshot that agent g of the tick would
\* propose to
Eligible(t, g) ==
  {o \in Loaded(t) \ {g} :
     /\ agents[t][o].owner_id # agents[t][g].owner_id
     /\ LET c == calculateCompatibility(AgentOf(t, g), AgentOf(t, o),
                                        defaultWeights)
        IN c.total >= agents[t][g].min_acceptable_score
           /\ c.fairness >= Pct(50) /\ c.total > 0}

TotalOf(t, g, o) ==
  calculateCompatibility(AgentOf(t, g), AgentOf(t, o), defaultWeights).total

C34_CompatibilitySymmetric ==
  (applied.fn = "calculateCompatibility" /\ applied.done) =>
    LET swapped == calculateCompatibility(applied.garmentB, applied.garmentA,
                                          applied.weights)
    IN /\ applied.result.total = swapped.total
       /\ applied.result.fairness = swapped.fairness
       /\ \A k \in DOMAIN defaultWeights :
            applied.result.breakdown[k] = swapped.breakdown[k]

\* C34 witness: the engine applied to two garments that differ in every
\* attribute it reads, under weights other than the defaults.
C34_Witness ==
  /\ applied.fn = "calculateCompatibility"
  /\ applied.done
  /\ applied.weights # defaultWeights
  /\ applied.garmentA.condition < applied.garmentB.condition
  /\ applied.garmentA.rarity > applied.garmentB.rarity
  /\ applied.garmentA.category # applied.garmentB.category
  /\ Len(applied.garmentA.style_tags) > Len(applied.garmentB.style_tags)
  /\ applied.garmentA.vibe \notin {"", applied.garmentB.vibe}
  /\ applied.garmentA.personality # applied.garmentB.personality
  /\ applied.result.total > 0

\* C32: every intent an agent's tick inserts is PENDING, joins two different
\* garments of two different owners, both in the tick's snapshot of active
\* garments, with a compatibility_score of at least the proposer's
\* min_acceptable_score and a fairness_score of at least 0.5; the snapshot a
\* tick loads holds active garments only.
C32_InsertedIntentWellFormed ==
  [][\A t \in Ticks :
       /\ (pc[t] = "idle" /\ pc'[t] # "idle") =>
            \A g \in Garments : agents'[t][g].loaded => garments[g].active
       /\ (pc[t] = "create" /\ Len(intents') = Len(intents) + 1) =>
            LET new == intents'[Len(intents')]
            IN /\ new.status = "PENDING"
               /\ new.garment_a_id # new.garment_b_id
               /\ new.owner_a_id # new.owner_b_id
               /\ {new.garment_a_id, new.garment_b_id} \subseteq Loaded(t)
               /\ new.owner_a_id = agents[t][new.garment_a_id].owner_id
               /\ new.owner_b_id = agents[t][new.garment_b_id].owner_id
               /\ new.compatibility_score
                    >= agents[t][new.garment_a_id].min_acceptable_score
               /\ new.compatibility_score
                    >= garments[new.garment_a_id].min_acceptable_score
               /\ new.fairness_score >= Pct(50)]_vars

\* C32 witness: a tick whose snapshot lacks a deactivated garment has
\* inserted an intent.
C32_Witness ==
  \E t \in Ticks, g \in Garments :
    /\ ~garments[g].active
    /\ pc[t] # "idle"
    /\ g \notin Loaded(t)
    /\ proposed[t] # {}

\* C33: a garment agent degrades and decides with the garment's stored
\* parameters, 0 included: the threshold an agent's tick leaves stored is
\* the one degradeStandards gives for the stored patience and the stored
\* min_acceptable_score (lowered only after more than 7 days and only when
\* lower), and handleProposal accepts exactly when the total reaches the
\* recipient's stored min_acceptable_score and the fairness reaches 0.5.
C33_StoredParametersUsed ==
  [][\A t \in Ticks :
       /\ (pc[t] = "agentTick" /\ pc'[t] # "agentTick") =>
            LET g == Head(todo[t])
                row == Row(g, garments[g])
                days == now - row.last_match_attempt
                newScore == degradeStandards(row, days)
            IN garments'[g].min_acceptable_score =
                 IF days > 7 /\ newScore < row.min_acceptable_score
                 THEN newScore ELSE row.min_acceptable_score
       /\ \A i \in IntentIds :
            HandledBy(t, i) =>
              LET b == intents[i].garment_b_id
              IN intents'[i].status = "ACCEPTED" <=>
                   /\ intents[i].compatibility_score
                        >= garments[b].min_acceptable_score
                   /\ intents[i].fairness_score >= Pct(50)]_vars

\* the DECLINED and CONFIRMED intents that join garments x and y
ClosedBetween(x, y) ==
  {i \in IntentIds :
     /\ intents[i].status \in {"DECLINED", "CONFIRMED"}
     /\ \/ intents[i].garment_a_id = x /\ intents[i].garment_b_id = y
        \/ intents[i].garment_a_id = y /\ intents[i].garment_b_id = x}

\* C35: a DECLINED or CONFIRMED intent does not block a new proposal for
\* the same pair: an agent whose best candidate has closed intents with it
\* and no open one goes on from the existence check to the insert, and the
\* insert adds a new PENDING intent for the pair.
C35_ClosedIntentDoesNotBlock ==
  [][\A t \in Ticks :
       LET g == Head(todo[t])
           b == bestMatch[t]
       IN /\ (/\ pc[t] = "check" /\ pc'[t] # "check"
               /\ ClosedBetween(g, b) # {}
               /\ OpenBetween(g, b) = {}) => pc'[t] = "create"
          /\ (/\ pc[t] = "create" /\ pc'[t] # "create"
               /\ ClosedBetween(g, b) # {}) =>
               /\ Len(intents') = Len(intents) + 1
               /\ intents'[Len(intents')].status = "PENDING"
               /\ intents'[Len(intents')].garment_a_id = g
               /\ intents'[Len(intents')].garment_b_id = b]_vars

\* C35 witness: a pair with a declined intent and one with a confirmed
\* intent have each been proposed again.
C35_Witness ==
  \E i, j \in IntentIds :
    /\ i < j
    /\ intents[i].status \in {"DECLINED", "CONFIRMED"}
    /\ intents[j].status = "PENDING"
    /\ {intents[i].garment_a_id, intents[i].garment_b_id}
         = {intents[j].garment_a_id, intents[j].garment_b_id}

\* C36: degradation compounds across ticks: an agent's tick that finds
\* last_match_attempt more than 7 days old subtracts the full
\* (1 - patience) * 0.01 * days from the threshold stored at that moment,
\* the one an earlier tick has lowered, down to the 0.4 floor, and leaves
\* last_match_attempt as old as it was; patience and threshold are the
\* agent's.
C36_DegradationCompounds ==
  [][\A t \in Ticks :
       (pc[t] = "agentTick" /\ pc'[t] # "agentTick") =>
         LET g == Head(todo[t])
             patience == IF GarmentData[g].patience = 0 THEN 5
                         ELSE GarmentData[g].patience
             threshold == IF garments[g].min_acceptable_score = 0 THEN Pct(65)
                          ELSE garments[g].min_acceptable_score
             days == now - garments[g].last_match_attempt
             reduction == ((10 - patience) * days * One) \div 1000
             lowered == Max(Pct(40), threshold - reduction)
         IN /\ garments'[g].last_match_attempt
                 = garments[g].last_match_attempt
            /\ garments'[g].min_acceptable_score =
                 IF days > 7 /\ lowered < threshold
                 THEN lowered ELSE garments[g].min_acceptable_score]_vars

\* C36 witness: g1, never touched, holds a threshold above the floor and
\* below the one a single lowering from 0.65 over all the days gives.
C36_Witness ==
  /\ garments["g1"].last_match_attempt = 0
  /\ garments["g1"].min_acceptable_score > Pct(40)
  /\ garments["g1"].min_acceptable_score
       < degradeStandards([patience |-> 5, min_acceptable_score |-> Pct(65)],
                          now)

C38_OpenIntentOwnersCurrent ==
  \A i \in IntentIds :
    Open(i) =>
      /\ intents[i].owner_a_id = garments[intents[i].garment_a_id].owner_id
      /\ intents[i].owner_b_id = garments[intents[i].garment_b_id].owner_id

\* C39: in every reachable state every swap_history row references an
\* intent whose status is CONFIRMED.
C39_HistoryRowsOfConfirmedIntents ==
  \A k \in 1..Len(history) :
    /\ history[k].swap_intent_id \in IntentIds
    /\ intents[history[k].swap_intent_id].status = "CONFIRMED"

\* C40: a PENDING intent whose recipient or proposing garment is not in a
\* tick's snapshot of active garments is left unchanged by that tick: a
\* snapshot holds active garments only, a tick that finds fewer than two
\* writes nothing, and a PENDING intent changes only in the handleProposal
\* step of a tick whose snapshot holds both its garments, so no tick that
\* starts while a garment of the intent is inactive resolves it.
C40_PendingWithoutGarmentUntouched ==
  [][/\ \A t \in Ticks :
          (pc[t] = "idle" /\ pc'[t] # "idle") =>
            \A g \in Garments : agents'[t][g].loaded => garments[g].active
     /\ log' = "Not enough active garments for matching" => intents' = intents
     /\ \A i \in IntentIds :
          (intents[i].status = "PENDING" /\ intents'[i] # intents[i]) =>
            \E t \in Ticks : HandledBy(t, i)]_vars

\* C40 witness: a tick is about to pass over a PENDING intent it has loaded
\* whose recipient garment, deactivated, is not in its snapshot.
C40_Witness ==
  \E t \in Ticks :
    /\ pc[t] = "handle"
    /\ LET i == Head(pendingIntents[t])
       IN /\ i \in IntentIds
          /\ intents[i].status = "PENDING"
          /\ intents[i].garment_a_id \in Loaded(t)
          /\ intents[i].garment_b_id \notin Loaded(t)
          /\ ~garments[intents[i].garment_b_id].active

====
